---------------------------- MODULE Spec2Model ----------------------------
(***************************************************************************)
(* Model of the claude-pocketflow-template repository:                     *)
(*   - BaseNode.run, the three-phase node lifecycle (src/nodes/base.py)    *)
(*   - Config.__init__ / Config._validate (claude_pocketflow_template/     *)
(*     config.py)                                                          *)
(*   - the FlowDaemon flow registry (daemon.py, known from its tests)      *)
(***************************************************************************)
EXTENDS Integers, Sequences, FiniteSets, TLC

VARIABLES
    \* ---- BaseNode.run ----
    pc,         \* position of the run() call: "idle" when no call is active
    node,       \* the node instance run() was called on
    input,      \* the state the caller passed to run()
    store,      \* the local variable `store` of run()
    exc,        \* the exception being handled by run()'s except clause
    calls,      \* the phase invocations made by the current run, in order
    result,     \* how the last run() call ended (returned value / raised fault)
    runs,       \* number of run() calls made so far
    rerun,      \* TRUE when the current run's input is the previous run's result
    \* ---- Config ----
    env,        \* os.environ
    dirs,       \* directories existing in the filesystem
    cfgArgs,    \* arguments of the last Config(...) call
    cfg,        \* the Config object under construction / constructed
    cfgResult,  \* how the last Config(...) call ended
    cfgCalls,   \* number of Config(...) calls made so far
    \* ---- FlowDaemon registry ----
    flows,      \* FlowDaemon.flows
    ret,        \* value returned by the last registry operation
    oplog,      \* registry operations made so far, in order
    \* ---- FlowDaemon lifecycle ----
    running,    \* FlowDaemon._running
    startPc,    \* position of the start() call: "none" before any call
    lastLife    \* the lifecycle call that ran last: "none", "start" or "stop"

nodeVars   == <<pc, node, input, store, exc, calls, result, runs, rerun>>
configVars == <<env, dirs, cfgArgs, cfg, cfgResult, cfgCalls>>
registryVars == <<flows, ret, oplog>>
lifeVars   == <<running, startPc, lastLife>>
daemonVars == <<registryVars, lifeVars>>
vars       == <<nodeVars, configVars, daemonVars>>

-----------------------------------------------------------------------------
(* Bounds of the model *)

MaxRuns == 2
MaxConfigCalls == 2
MaxOps == 4

-----------------------------------------------------------------------------
(* Python values *)

\* Python's None
None == "None"

\* A state container is either a dict (a mapping from keys to values) or a
\* value that is not a mapping; None stands for the latter.
Dict(items) == [isdict |-> TRUE, items |-> items]
NotADict    == [isdict |-> FALSE]
EmptyItems  == [k \in {} |-> None]

\* dict.get(key): the value, or None when the key is absent
Get(d, key) == IF key \in DOMAIN d.items THEN d.items[key] ELSE None

\* d[key] = value
SetItem(d, key, value) ==
    Dict([k \in (DOMAIN d.items) \cup {key} |->
            IF k = key THEN value ELSE d.items[k]])

\* Outcomes of a call
Return(v)         == [kind |-> "return", value |-> v]
Raise(cls, msg)   == [kind |-> "raise", cls |-> cls, msg |-> msg]
NoResult          == [kind |-> "none"]
NoExc             == [kind |-> "none"]

\* Exception classes: subclasses of Exception are caught by `except Exception`,
\* the others (KeyboardInterrupt, SystemExit, ...) are not.
ExceptionClasses     == {"ValueError", "TypeError", "AttributeError"}
BaseExceptionClasses == {"KeyboardInterrupt"}

AttributeErrorMsg == "'NoneType' object has no attribute 'get'"
TypeErrorMsg      == "'NoneType' object does not support item assignment"


-----------------------------------------------------------------------------
(* BaseNode: src/nodes/base.py *)

\* BaseNode.__init__: self.name = name or self.__class__.__name__
BaseNode__init__(name, className) ==
    IF name # None /\ name # "" THEN name ELSE className

\* What a phase (prep, exec or post) of a concrete node does with the state it
\* is given.  The base class provides "default" for prep and post (return the
\* state unchanged); subclasses override the phases.
Default          == [kind |-> "default"]
SetKey(k, v)     == [kind |-> "set", key |-> k, value |-> v]
Raises(cls, msg) == [kind |-> "raise", cls |-> cls, msg |-> msg]
SetThenRaise(k, v, cls, msg) ==
    [kind |-> "set_raise", key |-> k, value |-> v, cls |-> cls, msg |-> msg]
ReturnNone       == [kind |-> "return_none"]

\* Calling a phase with behaviour b on state s:
\*   out   - what the call returns or raises
\*   store - the argument object after the call (phases mutate it in place)
Apply(b, s) ==
    CASE b.kind = "default" ->
            [out |-> Return(s), store |-> s]
      [] b.kind = "return_none" ->
            [out |-> Return(NotADict), store |-> s]
      [] b.kind = "raise" ->
            [out |-> Raise(b.cls, b.msg), store |-> s]
      [] b.kind = "set" ->
            IF s.isdict
            THEN [out |-> Return(SetItem(s, b.key, b.value)),
                  store |-> SetItem(s, b.key, b.value)]
            ELSE [out |-> Raise("TypeError", TypeErrorMsg), store |-> s]
      [] b.kind = "set_raise" ->
            IF s.isdict
            THEN [out |-> Raise(b.cls, b.msg),
                  store |-> SetItem(s, b.key, b.value)]
            ELSE [out |-> Raise("TypeError", TypeErrorMsg), store |-> s]

\* BaseNode.prep and BaseNode.post as the base class defines them
BaseNode_prep(s) == Apply(Default, s)
BaseNode_post(s) == Apply(Default, s)

PrepBehaviours ==
    { Default,
      SetKey("action", "error"),
      SetKey("action", "next"),
      Raises("ValueError", "missing input"),
      ReturnNone }

ExecBehaviours ==
    { SetKey("result", "ok"),
      SetKey("action", "next"),
      SetKey("action", "error"),
      Raises("ValueError", "boom"),
      Raises("ValueError", ""),
      Raises("KeyboardInterrupt", ""),
      SetThenRaise("result", "partial", "ValueError", "boom"),
      ReturnNone }

PostBehaviours ==
    { Default,
      SetKey("action", "done"),
      Raises("ValueError", "cleanup failed"),
      ReturnNone }

NodeNames == { BaseNode__init__(n, "MyNode") : n \in {None, "", "Checker"} }

Nodes ==
    [name : NodeNames, prep : PrepBehaviours,
     exec : ExecBehaviours, post : PostBehaviours]

\* The node a caller chains after another one: it keeps the default prep and
\* post
ChainNodes ==
    { [name |-> "Formatter", prep |-> Default,
       exec |-> SetKey("result", "ok"), post |-> Default] }

NoNode == [name |-> None, prep |-> Default, exec |-> ReturnNone, post |-> Default]

\* States a caller builds before invoking a node
InputStates ==
    { Dict(EmptyItems),
      Dict([action |-> "next"]),
      Dict([action |-> "error"]),
      Dict([action |-> "error", error |-> "load failed", error_node |-> "Loader"]) }

\* `except Exception as e` (line 95): which faults the handler catches
Catches(cls) == cls \in ExceptionClasses

\* `if store.get("action") != "error"` (line 87)
ShouldExec_never(s) == FALSE
ShouldExec_always(s) == TRUE
ShouldExec_wrongkey(s) == Get(s, "error") = None
ShouldExec(s) == Get(s, "action") # "error"

\* The except clause's assignments (lines 97-99)
Annotate(s, msg, name) ==
    SetItem(SetItem(SetItem(s, "action", "error"), "error", msg),
            "error_node", name)

\* A fault raised inside the try block: caught (go to the handler) or not
\* (run() ends, propagating it).  `s` is the value of `store` at that point.
Fault_input(o, s) ==
    IF Catches(o.cls)
    THEN /\ pc' = "except"
         /\ exc' = o
         /\ store' = input
         /\ UNCHANGED <<result, runs>>
    ELSE /\ pc' = "idle"
         /\ exc' = NoExc
         /\ store' = s
         /\ result' = o
         /\ runs' = runs + 1
Fault(o, s) ==
    IF Catches(o.cls)
    THEN /\ pc' = "except"
         /\ exc' = o
         /\ store' = s
         /\ UNCHANGED <<result, runs>>
    ELSE /\ pc' = "idle"
         /\ exc' = NoExc
         /\ store' = s
         /\ result' = o
         /\ runs' = runs + 1

Phase(name, b, next) ==
    LET r == Apply(b, store) IN
    /\ calls' = Append(calls, [phase |-> name, arg |-> store, out |-> r.out])
    /\ IF r.out.kind = "return"
       THEN /\ store' = r.out.value
            /\ pc' = next
            /\ UNCHANGED <<exc, result, runs>>
       ELSE Fault(r.out, r.store)
    /\ UNCHANGED <<node, input, rerun>>
    /\ UNCHANGED <<configVars, daemonVars>>

\* The caller invokes node.run(s) with a state it built (line 71, 82-83)
Run_Call(n, s) ==
    /\ pc = "idle"
    /\ runs = 0
    /\ pc' = "prep"
    /\ node' = n
    /\ input' = s
    /\ store' = s
    /\ exc' = NoExc
    /\ calls' = <<>>
    /\ result' = NoResult
    /\ rerun' = FALSE
    /\ UNCHANGED runs
    /\ UNCHANGED <<configVars, daemonVars>>

\* The caller invokes run again with the state the previous run returned:
\* on the same node, or on the next node of a chain
Run_CallAgain(n) ==
    /\ pc = "idle"
    /\ runs < MaxRuns
    /\ result.kind = "return"
    /\ pc' = "prep"
    /\ node' = n
    /\ input' = result.value
    /\ store' = result.value
    /\ exc' = NoExc
    /\ calls' = <<>>
    /\ result' = NoResult
    /\ rerun' = TRUE
    /\ UNCHANGED runs
    /\ UNCHANGED <<configVars, daemonVars>>

\* store = self.prep(store)   (line 84)
Run_Prep ==
    /\ pc = "prep"
    /\ Phase("prep", node.prep, "check")

\* if store.get("action") != "error":   (line 87)
Run_Check ==
    /\ pc = "check"
    /\ IF ~store.isdict
       THEN Fault(Raise("AttributeError", AttributeErrorMsg), store)
       ELSE /\ pc' = IF ShouldExec(store) THEN "exec" ELSE "post"
            /\ UNCHANGED <<store, exc, result, runs>>
    /\ UNCHANGED <<node, input, calls, rerun>>
    /\ UNCHANGED <<configVars, daemonVars>>

\* store = self.exec(store)   (line 88)
Run_Exec ==
    /\ pc = "exec"
    /\ Phase("exec", node.exec, "post")

\* store = self.post(store)   (line 90)
Run_Post ==
    /\ pc = "post"
    /\ Phase("post", node.post, "log")

\* self.logger.info(f"... {store.get('action', 'none')}"); return store
\* (lines 92-93)
Run_Return ==
    /\ pc = "log"
    /\ IF ~store.isdict
       THEN Fault(Raise("AttributeError", AttributeErrorMsg), store)
       ELSE /\ pc' = "idle"
            /\ result' = Return(store)
            /\ runs' = runs + 1
            /\ UNCHANGED <<store, exc>>
    /\ UNCHANGED <<node, input, calls, rerun>>
    /\ UNCHANGED <<configVars, daemonVars>>

\* except Exception as e: ... return store   (lines 95-100)
\* The assignment store["action"] = "error" itself raises TypeError when
\* `store` is not a mapping; raised inside the handler, it leaves run().
Run_Except ==
    /\ pc = "except"
    /\ pc' = "idle"
    /\ exc' = NoExc
    /\ runs' = runs + 1
    /\ IF store.isdict
       THEN /\ store' = Annotate(store, exc.msg, node.name)
            /\ result' = Return(store')
       ELSE /\ result' = Raise("TypeError", TypeErrorMsg)
            /\ UNCHANGED store
    /\ UNCHANGED <<node, input, calls, rerun>>
    /\ UNCHANGED <<configVars, daemonVars>>

NodeInit ==
    /\ pc = "idle"
    /\ node = NoNode
    /\ input = Dict(EmptyItems)
    /\ store = Dict(EmptyItems)
    /\ exc = NoExc
    /\ calls = <<>>
    /\ result = NoResult
    /\ runs = 0
    /\ rerun = FALSE

NodeNext ==
    \/ \E n \in Nodes, s \in InputStates : Run_Call(n, s)
    \/ \E n \in {node} \cup ChainNodes : Run_CallAgain(n)
    \/ Run_Prep
    \/ Run_Check
    \/ Run_Exec
    \/ Run_Post
    \/ Run_Return
    \/ Run_Except


-----------------------------------------------------------------------------
(* Config: src/claude_pocketflow_template/config.py *)

\* An argument the caller may leave out: <<>> when not passed, <<v>> when
\* passed with value v.
NotPassed == <<>>
Passed(v) == <<v>>

\* A parameter's value: the argument, or the signature's default (lines 13-20)
Param(a, default) == IF a = NotPassed THEN default ELSE a[1]

\* Defaults of the signature (lines 13-20)
DefaultDebug == FALSE
DefaultLogLevel == "INFO"
DefaultFlowTimeout == 60
DefaultMaxRetries == 3

\* os.getenv(name): the variable's value, or None when it is not set
Getenv(e, name) == IF name \in DOMAIN e THEN e[name] ELSE None

\* Python truthiness of an optional string: None and "" are false
Truthy(s) == s # None /\ s # ""

\* Paths are sequences of components; Path("data") and Path("logs") are the
\* defaults (lines 42-43).
DefaultDataDir == <<"data">>
DefaultLogsDir == <<"logs">>

\* Regular files present in the filesystem: a path that cannot become a
\* directory.
RegularFiles == { <<"notes.txt">> }

Prefixes(p) == { SubSeq(p, 1, i) : i \in 1..Len(p) }

\* Path.mkdir(parents=True, exist_ok=True) (lines 46-47): creates the
\* directory and its missing parents; existing directories are accepted; a
\* regular file on the way raises OSError (FileExistsError /
\* NotADirectoryError) after the parents above it were created.
Mkdir(p, d) ==
    LET blocked == { q \in Prefixes(p) : q \in RegularFiles } IN
    IF blocked = {}
    THEN [ok |-> TRUE, dirs |-> d \cup Prefixes(p)]
    ELSE [ok |-> FALSE,
          dirs |-> d \cup { q \in Prefixes(p) :
                              \A b \in blocked : Len(q) < Len(b) }]

ValidLogLevels == {"DEBUG", "INFO", "WARNING", "ERROR", "CRITICAL"}

\* Config._validate (lines 56-68): the message of the ValueError it raises,
\* or None when it returns.
Config_validate_lax(c) ==
    IF c.log_level \notin ValidLogLevels THEN "Invalid log_level"
    ELSE IF c.flow_timeout < 0 THEN "flow_timeout must be positive"
    ELSE IF c.max_retries < 0 THEN "max_retries must be non-negative"
    ELSE None
Config_validate(c) ==
    IF c.log_level \notin ValidLogLevels THEN "Invalid log_level"
    ELSE IF c.flow_timeout <= 0 THEN "flow_timeout must be positive"
    ELSE IF c.max_retries < 0 THEN "max_retries must be non-negative"
    ELSE None

\* The attributes __init__ assigns (lines 35-43); the additional options of
\* **kwargs (lines 50-51) are not modelled.
Config_attributes(a, e) ==
    [ anthropic_api_key |->
          IF Truthy(Param(a.anthropic_api_key, None))
          THEN Param(a.anthropic_api_key, None)
          ELSE Getenv(e, "ANTHROPIC_API_KEY"),
      debug        |-> Param(a.debug, DefaultDebug),
      log_level    |-> Param(a.log_level, DefaultLogLevel),
      flow_timeout |-> Param(a.flow_timeout, DefaultFlowTimeout),
      max_retries  |-> Param(a.max_retries, DefaultMaxRetries),
      data_dir     |-> Param(a.data_dir, DefaultDataDir),
      logs_dir     |-> Param(a.logs_dir, DefaultLogsDir) ]

NoConfig == [constructed |-> FALSE]
NoArgs ==
    [ anthropic_api_key |-> NotPassed, debug |-> NotPassed,
      log_level |-> NotPassed, data_dir |-> NotPassed, logs_dir |-> NotPassed,
      flow_timeout |-> NotPassed, max_retries |-> NotPassed ]

\* Arguments callers pass to Config(...)
ConfigArgs ==
    [ anthropic_api_key : {NotPassed, Passed("test_key"), Passed("")},
      debug        : {NotPassed, Passed(TRUE)},
      log_level    : {NotPassed, Passed("DEBUG"), Passed("VERBOSE")},
      data_dir     : {NotPassed, Passed(<<"tmp", "data">>), Passed(<<"notes.txt">>)},
      logs_dir     : {NotPassed, Passed(<<"notes.txt", "logs">>)},
      flow_timeout : {NotPassed, Passed(-1), Passed(0), Passed(1)},
      max_retries  : {NotPassed, Passed(-1), Passed(0)} ]

\* Environment variables and the values the tests give them
EnvValues ==
    [ ANTHROPIC_API_KEY |-> "env_test_key",
      DEBUG             |-> "true",
      LOG_LEVEL         |-> "DEBUG",
      FLOW_TIMEOUT      |-> <<"9", "0", "0">>,
      MAX_RETRIES       |-> <<"1", "0">> ]
EnvNames == DOMAIN EnvValues

\* Config.__init__ (lines 11-54), the whole constructor
Config__init__(a) ==
    LET c  == Config_attributes(a, env)
        m1 == Mkdir(c.data_dir, dirs)
        m2 == Mkdir(c.logs_dir, m1.dirs)
        v  == Config_validate(c)
    IN
    /\ cfgCalls' = cfgCalls + 1
    /\ cfgArgs' = a
    /\ IF ~m1.ok
       THEN /\ dirs' = m1.dirs
            /\ cfg' = NoConfig
            /\ cfgResult' = Raise("OSError", "mkdir data_dir")
       ELSE IF ~m2.ok
       THEN /\ dirs' = m2.dirs
            /\ cfg' = NoConfig
            /\ cfgResult' = Raise("OSError", "mkdir logs_dir")
       ELSE IF v # None
       THEN /\ dirs' = m2.dirs
            /\ cfg' = NoConfig
            /\ cfgResult' = Raise("ValueError", v)
       ELSE /\ dirs' = m2.dirs
            /\ cfg' = [constructed |-> TRUE] @@ c
            /\ cfgResult' = Return(None)
    /\ UNCHANGED env
    /\ UNCHANGED <<nodeVars, daemonVars>>

\* The program constructs its Config
Config_Call(a) ==
    /\ cfgCalls = 0
    /\ Config__init__(a)

\* ... and constructs it again later with the same arguments (the directories
\* of the first construction exist by then)
Config_CallAgain ==
    /\ cfgCalls > 0
    /\ cfgCalls < MaxConfigCalls
    /\ Config__init__(cfgArgs)

\* The caller's environment: a variable is set before the constructor runs
Setenv(name) ==
    /\ cfgCalls = 0
    /\ name \notin DOMAIN env
    /\ env' = [k \in (DOMAIN env) \cup {name} |-> EnvValues[k]]
    /\ UNCHANGED <<dirs, cfgArgs, cfg, cfgResult, cfgCalls>>
    /\ UNCHANGED <<nodeVars, daemonVars>>

ConfigInit ==
    /\ env = [k \in {} |-> None]
    /\ dirs = {}
    /\ cfgArgs = NoArgs
    /\ cfg = NoConfig
    /\ cfgResult = NoResult
    /\ cfgCalls = 0

ConfigNext ==
    \/ \E name \in EnvNames : Setenv(name)
    \/ \E a \in ConfigArgs : Config_Call(a)
    \/ Config_CallAgain

-----------------------------------------------------------------------------
(* FlowDaemon flow registry: claude_pocketflow_template/daemon.py *)

FlowNames == {"x", "y"}
FlowObjects == {"f1", "f2"}

\* FlowDaemon.__init__: self.flows = {}; self._running = False
DaemonInit ==
    /\ flows = [k \in {} |-> None]
    /\ ret = None
    /\ oplog = <<>>
    /\ running = FALSE
    /\ startPc = "none"
    /\ lastLife = "none"

\* self.flows[name] = flow
Registry_put_keep(m, name, flow) ==
    IF name \in DOMAIN m THEN m
    ELSE [k \in (DOMAIN m) \cup {name} |-> IF k = name THEN flow ELSE m[k]]
Registry_put(m, name, flow) ==
    [k \in (DOMAIN m) \cup {name} |-> IF k = name THEN flow ELSE m[k]]

\* self.flows.pop(name, None): the value removed (None when absent) and the
\* mapping left
Registry_pop(m, name) ==
    IF name \in DOMAIN m
    THEN [value |-> m[name], flows |-> [k \in (DOMAIN m) \ {name} |-> m[k]]]
    ELSE [value |-> None, flows |-> m]

\* FlowDaemon.add_flow(name, flow)
add_flow(name, flow) ==
    /\ Len(oplog) < MaxOps
    /\ flows' = Registry_put(flows, name, flow)
    /\ ret' = None
    /\ oplog' = Append(oplog, [op |-> "add", name |-> name, flow |-> flow])
    /\ UNCHANGED <<lifeVars, nodeVars, configVars>>

\* FlowDaemon.remove_flow(name)
remove_flow(name) ==
    /\ Len(oplog) < MaxOps
    /\ flows' = Registry_pop(flows, name).flows
    /\ ret' = Registry_pop(flows, name).value
    /\ oplog' = Append(oplog, [op |-> "remove", name |-> name, flow |-> None])
    /\ UNCHANGED <<lifeVars, nodeVars, configVars>>

\* The value start() and stop() give the running flag
StartFlag_unset == FALSE
StartFlag == TRUE
StopFlag_unset == TRUE
StopFlag == FALSE

\* The idle loop of start(): it goes on while the flag is true
KeepsIdling_always(flag) == TRUE
KeepsIdling(flag) == flag

\* FlowDaemon.start() begins: self._running = True.  The caller starts the
\* daemon when no start() call of it is pending.
start_Begin ==
    /\ startPc \in {"none", "done"}
    /\ running' = StartFlag
    /\ startPc' = "init"
    /\ lastLife' = "start"
    /\ UNCHANGED <<registryVars, nodeVars, configVars>>

\* start(): await self._initialize_flows()
start_Initialize ==
    /\ startPc = "init"
    /\ startPc' = "idle"
    /\ UNCHANGED <<running, lastLife, registryVars, nodeVars, configVars>>

\* start(): the idle loop finds the flag cleared and start() returns
start_Return ==
    /\ startPc = "idle"
    /\ ~KeepsIdling(running)
    /\ startPc' = "done"
    /\ UNCHANGED <<running, lastLife, registryVars, nodeVars, configVars>>

\* FlowDaemon.stop(): self._running = False; it raises nothing, started or not
stop ==
    /\ running' = StopFlag
    /\ lastLife' = "stop"
    /\ UNCHANGED <<startPc, registryVars, nodeVars, configVars>>

DaemonNext ==
    \/ \E name \in FlowNames, f \in FlowObjects : add_flow(name, f)
    \/ \E name \in FlowNames : remove_flow(name)
    \/ start_Begin
    \/ start_Initialize
    \/ start_Return
    \/ stop

-----------------------------------------------------------------------------
(* Specifications *)

Init == NodeInit /\ ConfigInit /\ DaemonInit

Next == NodeNext \/ ConfigNext \/ DaemonNext

SpecNode   == Init /\ [][NodeNext]_vars
SpecConfig == Init /\ [][ConfigNext]_vars
SpecDaemon == Init /\ [][DaemonNext]_vars

\* The event loop runs a start() call that can go on: the initialization hook
\* returns, and the idle loop notices a cleared flag.
SpecDaemonFair ==
    SpecDaemon /\ WF_vars(start_Initialize) /\ WF_vars(start_Return)
Spec       == Init /\ [][Next]_vars

-----------------------------------------------------------------------------
(* Properties of BaseNode.run *)

\* A run() call has ended (returned or raised) and no other has begun
Finished == pc = "idle" /\ result.kind # "none"

\* The phases the current run has invoked, in order
PhasesCalled == [i \in 1..Len(calls) |-> calls[i].phase]

Invoked(ph) == { i \in 1..Len(calls) : calls[i].phase = ph }

\* prep has returned a state (a mapping) whose action is / is not "error"
PrepReturnedError ==
    /\ Len(calls) >= 1
    /\ calls[1].out.kind = "return"
    /\ calls[1].out.value.isdict
    /\ Get(calls[1].out.value, "action") = "error"

PrepReturnedNoError ==
    /\ Len(calls) >= 1
    /\ calls[1].out.kind = "return"
    /\ calls[1].out.value.isdict
    /\ Get(calls[1].out.value, "action") # "error"

\* C1 (as stated): a run on a state whose action is not "error" invokes
\* prep, exec, post in that order, each exactly once, whatever the node.
C1_AllPhasesOnce ==
    (Finished /\ Get(input, "action") # "error")
        => PhasesCalled = <<"prep", "exec", "post">>

\* C1 (amended): a run on a state whose action is not "error" invokes prep,
\* exec, post in that order, each exactly once, provided prep returns a state
\* whose action is still not "error" and neither prep nor exec raises; in
\* every run the phases invoked are prep first, then exec at most once, then
\* post at most once.
C1_PhasesInOrder ==
    /\ PhasesCalled \in { <<>>, <<"prep">>, <<"prep", "exec">>,
                          <<"prep", "post">>, <<"prep", "exec", "post">> }
    /\ ( /\ Finished
         /\ Get(input, "action") # "error"
         /\ PrepReturnedNoError
         /\ \A i \in Invoked("exec") : calls[i].out.kind = "return" )
        => PhasesCalled = <<"prep", "exec", "post">>

C1_Witness ==
    /\ Finished
    /\ Get(input, "action") # "error"
    /\ node.prep # Default
    /\ PhasesCalled = <<"prep", "exec", "post">>
    /\ result.kind = "return"
    /\ Get(result.value, "result") = "ok"

\* C2: if prep returns a state whose action is "error", exec is never invoked
\* in that run and post is invoked once, on that state.
C2_PrepErrorSkipsExec ==
    PrepReturnedError =>
        /\ Invoked("exec") = {}
        /\ pc # "exec"
        /\ Cardinality(Invoked("post")) <= 1
        /\ \A i \in Invoked("post") : calls[i].arg = calls[1].out.value
        /\ Finished => Cardinality(Invoked("post")) = 1

C2_Witness ==
    /\ Finished
    /\ Get(input, "action") # "error"
    /\ node.prep = SetKey("action", "error")
    /\ PrepReturnedError
    /\ PhasesCalled = <<"prep", "post">>
    /\ calls[2].arg = calls[1].out.value

\* The fault a phase raised in this run: an Exception (the faults the claims
\* are about; KeyboardInterrupt and the like are left aside) with a non-empty
\* description
PhaseRaisedException ==
    /\ Len(calls) >= 1
    /\ calls[Len(calls)].out.kind = "raise"
    /\ calls[Len(calls)].out.cls \in ExceptionClasses
    /\ calls[Len(calls)].out.msg # ""

NoBaseExceptionRaised ==
    \A i \in 1..Len(calls) :
        calls[i].out.kind = "raise" => calls[i].out.cls \in ExceptionClasses

\* C3 (as stated): when a phase raises a fault, run returns a state with
\* action "error", a non-empty error equal to the fault's text, and
\* error_node equal to the node's name.
C3_FaultAnnotated ==
    (Finished /\ PhaseRaisedException) =>
        /\ result.kind = "return"
        /\ Get(result.value, "action") = "error"
        /\ Get(result.value, "error") = calls[Len(calls)].out.msg
        /\ Get(result.value, "error") # ""
        /\ Get(result.value, "error_node") = node.name

\* C4 (as stated): run never propagates a fault: every run ends by returning
\* a state.
C4_NeverPropagates ==
    (Finished /\ NoBaseExceptionRaised)
        => (result.kind = "return" /\ result.value.isdict)

\* C5: a run on a state whose action is "error", when prep does not reset the
\* action, does not invoke exec; this holds for every repeated run.
C5_ErroredStateSkipsExec ==
    (Get(input, "action") = "error" /\ Len(calls) >= 1 /\ ~PrepReturnedNoError)
        => (Invoked("exec") = {} /\ pc # "exec")

C5_Witness ==
    /\ Finished
    /\ rerun
    /\ runs >= 2
    /\ Get(input, "action") = "error"
    /\ PrepReturnedError
    /\ Invoked("exec") = {}
    /\ Invoked("post") # {}

\* The calls of the current run that raised
RaisedCalls == { i \in 1..Len(calls) : calls[i].out.kind = "raise" }

\* The state the failing phase was processing, as that phase left it
Processed ==
    LET c == calls[Len(calls)] IN Apply(node[c.phase], c.arg).store

ErrorKeys == {"action", "error", "error_node"}

\* The items of a state other than the error annotation
OtherItems(d) == [k \in (DOMAIN d.items) \ ErrorKeys |-> d.items[k]]

\* C12: a fault in a phase ends the run at once: no phase is invoked after
\* the one that raised (prep raising: neither exec nor post; exec raising: no
\* post), and the state run returns is the one that phase was processing,
\* with the error annotation.
C12_FaultEndsRun ==
    /\ \A i \in RaisedCalls : i = Len(calls)
    /\ RaisedCalls # {} => pc \in {"except", "idle"}
    /\ (Len(calls) >= 1 /\ calls[1].out.kind = "raise")
          => PhasesCalled = <<"prep">>
    /\ (\E i \in Invoked("exec") : calls[i].out.kind = "raise")
          => Invoked("post") = {}
    /\ (Finished /\ RaisedCalls # {} /\ result.kind = "return")
          => /\ Processed.isdict
             /\ OtherItems(result.value) = OtherItems(Processed)
             /\ Get(result.value, "action") = "error"

C12_Witness ==
    /\ Finished
    /\ node.prep = SetKey("action", "next")
    /\ node.exec = SetThenRaise("result", "partial", "ValueError", "boom")
    /\ PhasesCalled = <<"prep", "exec">>
    /\ result.kind = "return"
    /\ Get(result.value, "result") = "partial"
    /\ Get(result.value, "error") = "boom"

\* C13: a node that keeps the default prep and post, run on a state whose
\* action is already "error", returns that state with every key unchanged:
\* error and error_node remain those of the node that failed first.
C13_ErroredStatePassesThrough ==
    ( /\ Finished
      /\ node.prep = Default
      /\ node.post = Default
      /\ Get(input, "action") = "error" )
        => /\ result = Return(input)
           /\ PhasesCalled = <<"prep", "post">>

C13_Witness ==
    /\ Finished
    /\ rerun
    /\ node \in ChainNodes
    /\ Get(input, "action") = "error"
    /\ Get(input, "error") = "boom"
    /\ Get(input, "error_node") = "Checker"
    /\ result = Return(input)

-----------------------------------------------------------------------------
(* Properties of Config *)

Constructed == cfgCalls > 0 /\ cfgResult.kind = "return"
FailedWith(cls) == cfgCalls > 0 /\ cfgResult.kind = "raise" /\ cfgResult.cls = cls

\* The input carries a setting the validation rejects
InvalidInput(a) ==
    \/ a.flow_timeout # NotPassed /\ a.flow_timeout[1] <= 0
    \/ a.max_retries # NotPassed /\ a.max_retries[1] < 0
    \/ a.log_level # NotPassed /\ a.log_level[1] \notin ValidLogLevels

\* The directories the input asks for
DataDirOf(a) == IF a.data_dir = NotPassed THEN <<"data">> ELSE a.data_dir[1]
LogsDirOf(a) == IF a.logs_dir = NotPassed THEN <<"logs">> ELSE a.logs_dir[1]

\* No regular file lies on the path of either directory
Creatable(a) ==
    (Prefixes(DataDirOf(a)) \cup Prefixes(LogsDirOf(a))) \cap RegularFiles = {}

\* C6 (as stated): construction fails with ValueError for every input with
\* flow_timeout <= 0, max_retries < 0 or an unknown log_level; for every
\* other input it succeeds and data_dir and logs_dir exist afterward.
C6_ValidationDecides ==
    cfgCalls > 0 =>
        IF InvalidInput(cfgArgs)
        THEN FailedWith("ValueError")
        ELSE /\ Constructed
             /\ DataDirOf(cfgArgs) \in dirs
             /\ LogsDirOf(cfgArgs) \in dirs

\* C6 (amended): when data_dir and logs_dir can be created, construction
\* fails with ValueError for every input with flow_timeout <= 0,
\* max_retries < 0 or an unknown log_level, and succeeds for every other
\* input, with both directories existing afterward; when one of them cannot
\* be created, construction fails with the OSError of mkdir, whatever the
\* other settings are.
C6_ValidationAfterMkdir ==
    cfgCalls > 0 =>
        IF ~Creatable(cfgArgs)
        THEN FailedWith("OSError")
        ELSE IF InvalidInput(cfgArgs)
        THEN FailedWith("ValueError")
        ELSE /\ Constructed
             /\ DataDirOf(cfgArgs) \in dirs
             /\ LogsDirOf(cfgArgs) \in dirs

C6_Witness ==
    /\ cfgArgs.flow_timeout = Passed(0)
    /\ cfgArgs.max_retries = NotPassed
    /\ cfgArgs.log_level = NotPassed
    /\ Creatable(cfgArgs)
    /\ FailedWith("ValueError")
    /\ cfgResult.msg = "flow_timeout must be positive"

\* Only the API key was passed to the constructor
OnlyApiKeyPassed(a) ==
    /\ a.anthropic_api_key = Passed("test_key")
    /\ a.debug = NotPassed
    /\ a.log_level = NotPassed
    /\ a.data_dir = NotPassed
    /\ a.logs_dir = NotPassed
    /\ a.flow_timeout = NotPassed
    /\ a.max_retries = NotPassed

\* The defaults test_config_creation_with_defaults expects
ExpectedFlowTimeout == 300
ExpectedMaxRetries == 3

\* C7 (as stated): a Config constructed with only an API key has debug False,
\* log_level "INFO", flow_timeout 300 and max_retries 3.
C7_Defaults ==
    (Constructed /\ OnlyApiKeyPassed(cfgArgs)) =>
        /\ cfg.anthropic_api_key = "test_key"
        /\ cfg.debug = FALSE
        /\ cfg.log_level = "INFO"
        /\ cfg.flow_timeout = ExpectedFlowTimeout
        /\ cfg.max_retries = ExpectedMaxRetries

\* C8 (as stated): constructing Config with no API key argument and no
\* ANTHROPIC_API_KEY in the environment fails with ValueError.
C8_MissingApiKeyRejected ==
    ( /\ cfgCalls > 0
      /\ cfgArgs.anthropic_api_key = NotPassed
      /\ "ANTHROPIC_API_KEY" \notin DOMAIN env )
        => FailedWith("ValueError")

\* Reading an environment value as the tests expect it to be read
DigitValue ==
    [ d \in {"0", "1", "2", "3", "4", "5", "6", "7", "8", "9"} |->
        CASE d = "0" -> 0 [] d = "1" -> 1 [] d = "2" -> 2 [] d = "3" -> 3
          [] d = "4" -> 4 [] d = "5" -> 5 [] d = "6" -> 6 [] d = "7" -> 7
          [] d = "8" -> 8 [] d = "9" -> 9 ]

RECURSIVE ParseInt(_)
ParseInt(digits) ==
    IF digits = <<>> THEN 0
    ELSE 10 * ParseInt(SubSeq(digits, 1, Len(digits) - 1))
         + DigitValue[digits[Len(digits)]]

ParseBool(s) == s = "true"

\* C9 (as stated): a setting not passed to the constructor takes its value
\* from the environment variable of the same name, when that is set.
C9_SettingsFromEnvironment ==
    Constructed =>
        /\ ( cfgArgs.anthropic_api_key = NotPassed
             /\ "ANTHROPIC_API_KEY" \in DOMAIN env )
              => cfg.anthropic_api_key = env["ANTHROPIC_API_KEY"]
        /\ ( cfgArgs.debug = NotPassed /\ "DEBUG" \in DOMAIN env )
              => cfg.debug = ParseBool(env["DEBUG"])
        /\ ( cfgArgs.log_level = NotPassed /\ "LOG_LEVEL" \in DOMAIN env )
              => cfg.log_level = env["LOG_LEVEL"]
        /\ ( cfgArgs.flow_timeout = NotPassed /\ "FLOW_TIMEOUT" \in DOMAIN env )
              => cfg.flow_timeout = ParseInt(env["FLOW_TIMEOUT"])
        /\ ( cfgArgs.max_retries = NotPassed /\ "MAX_RETRIES" \in DOMAIN env )
              => cfg.max_retries = ParseInt(env["MAX_RETRIES"])

-----------------------------------------------------------------------------
(* Properties of the flow registry *)

\* The flow most recently added under `name` and not removed since, read off
\* the log of operations; None when there is none.
RECURSIVE LastAdded(_, _)
LastAdded(log, name) ==
    IF log = <<>> THEN None
    ELSE LET last == log[Len(log)] IN
         IF last.name = name
         THEN (IF last.op = "add" THEN last.flow ELSE None)
         ELSE LastAdded(SubSeq(log, 1, Len(log) - 1), name)

Registered(log) == { n \in FlowNames : LastAdded(log, n) # None }

\* C10: under any sequence of add_flow / remove_flow from the empty registry,
\* flows maps each name to the flow most recently added under it and not
\* removed since; add_flow(name, f) makes flows[name] = f; remove_flow(name)
\* returns that flow and leaves name absent; for an unknown name it returns
\* None and leaves the registry unchanged.
C10_RegistryIsPlainMap ==
    /\ DOMAIN flows = Registered(oplog)
    /\ \A n \in DOMAIN flows : flows[n] = LastAdded(oplog, n)
    /\ oplog # <<>> =>
        LET last   == oplog[Len(oplog)]
            before == SubSeq(oplog, 1, Len(oplog) - 1)
        IN  IF last.op = "add"
            THEN /\ last.name \in DOMAIN flows
                 /\ flows[last.name] = last.flow
            ELSE /\ ret = LastAdded(before, last.name)
                 /\ last.name \notin DOMAIN flows
                 /\ \A n \in FlowNames \ {last.name} :
                        LastAdded(before, n) = LastAdded(oplog, n)

C10_Witness ==
    /\ oplog = << [op |-> "add", name |-> "x", flow |-> "f1"],
                  [op |-> "add", name |-> "x", flow |-> "f2"],
                  [op |-> "remove", name |-> "x", flow |-> None] >>
    /\ ret = "f2"
    /\ "x" \notin DOMAIN flows

-----------------------------------------------------------------------------
(* Properties of the daemon lifecycle *)

\* A start() call has begun and not returned
StartPending == startPc \in {"init", "idle"}

=============================================================================
